---- MODULE Spec2Model ----
(***************************************************************************)
(* dynamo_items: a Table (primary-key types, prefix registry, store        *)
(* handle) and Items mapping typed records to composite pk/sk keys.        *)
(*                                                                         *)
(* Strings are sequences of one-character strings, so that item[0],        *)
(* "for c in attr", upper() and f-string concatenation are computed        *)
(* character by character.  An Optional value is a sequence of length 0    *)
(* (None) or 1.                                                            *)
(***************************************************************************)
EXTENDS Integers, Sequences, FiniteSets, TLC

VARIABLES
    partition_key_type,   \* Table.partition_key_type: "str" or "int"
    sort_key_type,        \* Table.sort_key_type: "none", "str" or "int"
    key_prefixes,         \* Table.key_prefixes: "<item>.<attr>" -> prefix
    _key_prefix_names,    \* Table._key_prefix_names: the prefixes issued
    items,                \* the Item objects constructed on the Table
    store,                \* the DynamoDB table: primary key -> stored item
    returned,             \* history: (item, attr) -> what its first get_prefix call returned
    lastPut,              \* history: the latest put_item handed to the store
    calls,                \* number of direct get_prefix calls made
    puts,                 \* number of put_item calls made
    last                  \* the latest operation: its inputs and its outcome

vars == <<partition_key_type, sort_key_type, key_prefixes, _key_prefix_names,
          items, store, returned, lastPut, calls, puts, last>>

-----------------------------------------------------------------------------
(* Bounds *)

MaxCalls == 2
MaxItems == 2
MaxPuts == 1

-----------------------------------------------------------------------------
(* Strings and values *)

None == <<>>
Some(x) == <<x>>

upper(c) ==
    CASE c = "u" -> "U"
      [] c = "s" -> "S"
      [] c = "e" -> "E"
      [] c = "r" -> "R"
      [] c = "n" -> "N"
      [] c = "i" -> "I"
      [] c = "t" -> "T"
      [] c = "d" -> "D"
      [] c = "p" -> "P"
      [] c = "k" -> "K"
      [] c = "z" -> "Z"
      [] OTHER -> c

\* f"{x}" of an Optional[str]: None formats as "None"
FormatOpt(o) == IF o = None THEN <<"N", "o", "n", "e">> ELSE o[1]

\* A Python value: ty is "str", "int" or "none"; s is its str()
StrVal(s) == [ty |-> "str", s |-> s]
IntVal(s) == [ty |-> "int", s |-> s]
NoneVal == [ty |-> "none", s |-> <<"N", "o", "n", "e">>]

Digits == {"0", "1", "2", "3", "4", "5", "6", "7", "8", "9"}
IsNumeric(s) == Len(s) > 0 /\ \A i \in 1..Len(s) : s[i] \in Digits

\* t(value) for a scalar type t: str(value) or int(value)
Coerce(t, value) ==
    IF t = "str" THEN [ok |-> TRUE, v |-> StrVal(value.s)]
    ELSE IF value.ty = "int" THEN [ok |-> TRUE, v |-> value]
    ELSE IF value.ty = "str" /\ IsNumeric(value.s) THEN [ok |-> TRUE, v |-> IntVal(value.s)]
    ELSE [ok |-> FALSE, v |-> value]

-----------------------------------------------------------------------------
(* Key *)

Key(attr, prefix, prefix_value) ==
    [attr |-> attr, prefix |-> prefix, prefix_value |-> prefix_value, seperator |-> "#"]

-----------------------------------------------------------------------------
(* Table: the prefix registry *)

PrefixKey(item, attr) == item \o <<".">> \o attr

\* a slip: the prefix tested before a character is appended, so that the bare first
\* character of the type name is the first candidate
RECURSIVE prefix_loop_bare(_, _, _, _)
prefix_loop_bare(names, prefix, attr, i) ==
    IF prefix \notin names THEN Some(prefix)
    ELSE IF i > Len(attr) THEN None
    ELSE prefix_loop_bare(names, Append(prefix, upper(attr[i])), attr, i + 1)

\* "for c in attr": the prefix grows by one upper-cased character, then is tested
RECURSIVE prefix_loop(_, _, _, _)
prefix_loop(names, prefix, attr, i) ==
    IF i > Len(attr) THEN None
    ELSE LET p == Append(prefix, upper(attr[i]))
         IN IF p \notin names THEN Some(p)
            ELSE prefix_loop(names, p, attr, i + 1)

\* a slip: the issued prefixes are not consulted
get_prefix_unchecked(kp, names, item, attr) ==
    LET k == PrefixKey(item, attr)
        p == <<upper(item[1]), upper(attr[1])>>
    IN IF k \in DOMAIN kp
       THEN [ret |-> Some(kp[k]), kp |-> kp, names |-> names]
       ELSE [ret |-> Some(p), kp |-> (k :> p) @@ kp, names |-> names \cup {p}]

\* Table.get_prefix(item, attr): ret is the value returned (None when the loop ends
\* without a return), kp and names the registry afterwards
get_prefix(kp, names, item, attr) ==
    LET k == PrefixKey(item, attr)
    IN IF k \in DOMAIN kp
       THEN [ret |-> Some(kp[k]), kp |-> kp, names |-> names]
       ELSE LET r == prefix_loop(names, <<upper(item[1])>>, attr, 1)
            IN IF r = None
               THEN [ret |-> None, kp |-> kp, names |-> names]
               ELSE [ret |-> r, kp |-> (k :> r[1]) @@ kp, names |-> names \cup {r[1]}]

-----------------------------------------------------------------------------
(* Record shapes (pydantic models): the type name, the declared fields in  *)
(* order, and the fields annotated Optional.  No field has a default.      *)

Model(name, fields, optional) == [name |-> name, fields |-> fields, optional |-> optional]

User == Model(<<"U", "s", "e", "r">>, << <<"i", "d">>, <<"p", "k">> >>, {})
Unit == Model(<<"u", "n", "i", "t">>, << <<"i">>, <<"s", "k">> >>, {<<"s", "k">>})
Models == {User, Unit}

FieldSet(item_model) == {item_model.fields[i] : i \in 1..Len(item_model.fields)}

\* is_optional(item_model.model_fields[attr].annotation)
is_optional(item_model, attr) == attr \in item_model.optional

S1 == StrVal(<<"1">>)
I1 == IntVal(<<"1">>)
Values == {S1, I1}
FieldValues(item_model, f) == IF f \in item_model.optional THEN {S1, NoneVal} ELSE Values

\* the instances of a shape
Records(item_model) ==
    {r \in [FieldSet(item_model) -> Values \cup {NoneVal}] :
        \A f \in FieldSet(item_model) : r[f] \in FieldValues(item_model, f)}

\* item.model_dump(mode="json"): str, int and None values dump as themselves
model_dump(record) == [f \in DOMAIN record |-> record[f]]

\* item_model.model_validate(mapping): every field is required, extra keys are ignored
model_validate(item_model, mapping) ==
    IF FieldSet(item_model) \subseteq DOMAIN mapping
    THEN [err |-> "none", v |-> Some([f \in FieldSet(item_model) |-> mapping[f]])]
    ELSE [err |-> "ValidationError", v |-> None]

-----------------------------------------------------------------------------
(* Item.__init__ *)

Absent == <<"z", "z">>
Explicit == <<"U", "I">>

\* the pk and sk arguments a caller passes: None or a Key
PkInputs(item_model) ==
    {None}
    \cup {Some(Key(a, p, None)) : a \in FieldSet(item_model) \cup {Absent}, p \in BOOLEAN}
    \cup {Some(Key(item_model.fields[1], TRUE, Some(Explicit)))}
SkInputs(item_model) ==
    {None}
    \cup {Some(Key(a, p, None)) : a \in {item_model.fields[Len(item_model.fields)], Absent},
                                  p \in BOOLEAN}

Raise(e, kp, names, pk, sk) ==
    [err |-> e, kp |-> kp, names |-> names, pk |-> pk, sk |-> sk]

\* the two get_prefix calls and the assignments that end the constructor
ResolvePrefixes(kp, names, item_model, pk, sk) ==
    LET r1 == IF pk.prefix_value = None
              THEN get_prefix(kp, names, item_model.name, pk.attr)
              ELSE [ret |-> pk.prefix_value, kp |-> kp, names |-> names]
        r2 == IF sk # None /\ sk[1].prefix_value = None
              THEN get_prefix(r1.kp, r1.names, item_model.name, sk[1].attr)
              ELSE [ret |-> IF sk = None THEN None ELSE sk[1].prefix_value,
                    kp |-> r1.kp, names |-> r1.names]
    IN [err |-> "none", kp |-> r2.kp, names |-> r2.names,
        pk |-> Some([pk EXCEPT !.prefix_value = r1.ret]),
        sk |-> IF sk = None THEN None ELSE Some([sk[1] EXCEPT !.prefix_value = r2.ret])]

\* "pk.attr not in item_model.model_fields" and "is_optional(...)": the two checks
\* made of a key's attribute
KeyCheck(item_model, key) ==
    IF key.attr \notin FieldSet(item_model) THEN "AttributeError"
    ELSE IF is_optional(item_model, key.attr) THEN "TypeError"
    ELSE "none"

\* "pk.prefix is True and self._table.partition_key_type is not str"
PrefixCheck(key, t) == IF key.prefix /\ t # "str" THEN "ValueError" ELSE "none"

\* the first exception of a sequence of checks made in order
FirstError(checks) ==
    IF \E i \in 1..Len(checks) : checks[i] # "none"
    THEN checks[CHOOSE i \in 1..Len(checks) :
                    checks[i] # "none" /\ \A j \in 1..(i - 1) : checks[j] = "none"]
    ELSE "none"

\* the partition key the constructor works on: the first declared field by default
DefaultPk(item_model, pk_in) ==
    IF pk_in = None THEN Key(item_model.fields[1], TRUE, None) ELSE pk_in[1]

\* the sort-key checks, made only when a sort key is given
SkKeyCheck(item_model, sk) == IF sk = None THEN "none" ELSE KeyCheck(item_model, sk[1])
SkPrefixCheck(sk, skt) == IF sk = None THEN "none" ELSE PrefixCheck(sk[1], skt)

\* a slip: the pk prefix check placed with the pk checks, before the sk checks
Item_init_pk_first(kp, names, pkt, skt, item_model, pk_in, sk_in) ==
    LET pk == DefaultPk(item_model, pk_in)
        e == FirstError(<<KeyCheck(item_model, pk), PrefixCheck(pk, pkt),
                          SkKeyCheck(item_model, sk_in), SkPrefixCheck(sk_in, skt)>>)
    IN IF e # "none" THEN Raise(e, kp, names, pk_in, sk_in)
       ELSE ResolvePrefixes(kp, names, item_model, pk, sk_in)

\* a slip: the table's key type tested whether or not the key asks for a prefix
Item_init_any_prefix(kp, names, pkt, skt, item_model, pk_in, sk_in) ==
    LET pk == DefaultPk(item_model, pk_in)
        e == FirstError(<<KeyCheck(item_model, pk), SkKeyCheck(item_model, sk_in),
                          IF pkt # "str" THEN "ValueError" ELSE "none",
                          SkPrefixCheck(sk_in, skt)>>)
    IN IF e # "none" THEN Raise(e, kp, names, pk_in, sk_in)
       ELSE ResolvePrefixes(kp, names, item_model, pk, sk_in)

\* a slip: the prefixes resolved before the prefix checks are made
Item_init_resolve_first(kp, names, pkt, skt, item_model, pk_in, sk_in) ==
    LET pk == DefaultPk(item_model, pk_in)
        e1 == FirstError(<<KeyCheck(item_model, pk), SkKeyCheck(item_model, sk_in)>>)
        e2 == FirstError(<<PrefixCheck(pk, pkt), SkPrefixCheck(sk_in, skt)>>)
        r == ResolvePrefixes(kp, names, item_model, pk, sk_in)
    IN IF e1 # "none" THEN Raise(e1, kp, names, pk_in, sk_in)
       ELSE IF e2 # "none" THEN Raise(e2, r.kp, r.names, r.pk, r.sk)
       ELSE r

\* Item(item_model, pk, sk, table): err is "none" or the exception raised; kp and
\* names are the Table's registry afterwards; pk and sk are the Key objects afterwards
Item_init(kp, names, pkt, skt, item_model, pk_in, sk_in) ==
    LET pk == DefaultPk(item_model, pk_in)
        e == FirstError(<<KeyCheck(item_model, pk), SkKeyCheck(item_model, sk_in),
                          PrefixCheck(pk, pkt), SkPrefixCheck(sk_in, skt)>>)
    IN IF e # "none" THEN Raise(e, kp, names, pk_in, sk_in)
       ELSE ResolvePrefixes(kp, names, item_model, pk, sk_in)

-----------------------------------------------------------------------------
(* Item._key_value, put_item, get_item *)

PK == <<"p", "k">>
SK == <<"s", "k">>
Placeholder == StrVal(<<"A">>)

\* self._key_value(key, value)
_key_value(key, value) ==
    IF key.prefix
    THEN [ok |-> TRUE,
          v |-> StrVal(FormatOpt(key.prefix_value) \o <<key.seperator>> \o value.s)]
    ELSE Coerce(partition_key_type, value)

\* d.update(e): the entries of e replace those of d
update(d, e) == e @@ d

\* the base_item put_item builds and hands to the store; composed is base_item as
\* it stands before the update
put_item(it, record) ==
    LET pkv == _key_value(it.pk, record[it.pk.attr])
        skv == IF it.sk # None THEN _key_value(it.sk[1], record[it.sk[1].attr])
               ELSE [ok |-> TRUE, v |-> Placeholder]
        base == IF it.sk = None /\ sort_key_type # "none"
                  THEN (PK :> pkv.v) @@ (SK :> Placeholder)
                ELSE IF it.sk # None THEN (PK :> pkv.v) @@ (SK :> skv.v)
                ELSE (PK :> pkv.v)
    IN IF ~pkv.ok \/ ~skv.ok
       THEN [err |-> "ValueError", composed |-> None, base_item |-> None]
       ELSE [err |-> "none", composed |-> Some(base),
             base_item |-> Some(update(base, model_dump(record)))]

\* the key get_item builds and hands to the store
get_item_key(it, pk, sk) ==
    LET pkv == _key_value(it.pk, pk)
    IN IF ~pkv.ok THEN [err |-> "ValueError", key |-> None]
       ELSE IF sk = None /\ sort_key_type # "none"
         THEN [err |-> "none", key |-> Some((PK :> pkv.v) @@ (SK :> Placeholder))]
       ELSE IF sk # None
         THEN IF it.sk = None THEN [err |-> "AttributeError", key |-> None]
              ELSE LET skv == _key_value(it.sk[1], sk[1])
                   IN IF ~skv.ok THEN [err |-> "ValueError", key |-> None]
                      ELSE [err |-> "none", key |-> Some((PK :> pkv.v) @@ (SK :> skv.v))]
       ELSE [err |-> "none", key |-> Some((PK :> pkv.v))]

-----------------------------------------------------------------------------
(* The store behind self._table.dynamodb: a table whose key schema is the  *)
(* Table's declared key types.                                             *)

KeyAttrs == IF sort_key_type = "none" THEN {PK} ELSE {PK, SK}
KeyType(a) == IF a = PK THEN partition_key_type ELSE sort_key_type

\* the key attributes present with the schema's types
ValidKey(m) == \A a \in KeyAttrs : a \in DOMAIN m /\ m[a].ty = KeyType(a)

PrimaryKey(m) == IF sort_key_type = "none" THEN <<m[PK]>> ELSE <<m[PK], m[SK]>>

\* dynamodb.put_item(Item=base_item)
StorePut(st, base_item) ==
    IF ValidKey(base_item)
    THEN [err |-> "none", st |-> (PrimaryKey(base_item) :> base_item) @@ st]
    ELSE [err |-> "ClientError", st |-> st]

\* dynamodb.get_item(Key=key): the response, with "Item" only when found
StoreGet(st, key) ==
    IF ValidKey(key) /\ DOMAIN key = KeyAttrs
    THEN [err |-> "none",
          resp |-> IF PrimaryKey(key) \in DOMAIN st THEN st[PrimaryKey(key)] ELSE <<>>]
    ELSE [err |-> "ClientError", resp |-> <<>>]

\* get_item: compose the key, read, validate resp.get("Item", {})
get_item(it, pk, sk) ==
    LET k == get_item_key(it, pk, sk)
    IN IF k.err # "none" THEN [err |-> k.err, key |-> None, ret |-> None]
       ELSE LET g == StoreGet(store, k.key[1])
            IN IF g.err # "none" THEN [err |-> g.err, key |-> k.key, ret |-> None]
               ELSE LET m == model_validate(it.item_model, g.resp)
                    IN [err |-> m.err, key |-> k.key, ret |-> m.v]

-----------------------------------------------------------------------------
(* Specification *)

Idle == [op |-> "none"]

Init ==
    /\ partition_key_type \in {"str", "int"}
    /\ sort_key_type \in {"none", "str", "int"}
    /\ key_prefixes = <<>>
    /\ _key_prefix_names = {}
    /\ items = {}
    /\ store = <<>>
    /\ returned = <<>>
    /\ lastPut = None
    /\ calls = 0
    /\ puts = 0
    /\ last = Idle

\* history of first results, kept for every get_prefix call made
Record(hist, item, attr, ret) ==
    IF <<item, attr>> \in DOMAIN hist THEN hist ELSE (<<item, attr>> :> ret) @@ hist

\* type names and attribute names are Python identifiers: non-empty, without "."
TypeNames == {m.name : m \in Models}
Attrs == {<<"i", "d">>, <<"i">>}

\* a direct call table.get_prefix(item, attr)
GetPrefix ==
    /\ last = Idle
    /\ calls < MaxCalls
    /\ \E item \in TypeNames, attr \in Attrs :
        LET r == get_prefix(key_prefixes, _key_prefix_names, item, attr)
        IN /\ key_prefixes' = r.kp
           /\ _key_prefix_names' = r.names
           /\ returned' = Record(returned, item, attr, r.ret)
           /\ last' = [op |-> "get_prefix", item |-> item, attr |-> attr, ret |-> r.ret,
                       pre_kp |-> key_prefixes, pre_names |-> _key_prefix_names,
                       pre_returned |-> returned]
    /\ calls' = calls + 1
    /\ UNCHANGED <<partition_key_type, sort_key_type, items, store, lastPut, puts>>

\* Item(item_model, pk, sk, table=this Table); keep: the caller holds on to the new
\* Item for later put_item and get_item calls
Construct(keep) ==
    /\ last = Idle
    /\ \E item_model \in Models :
       \E pk_in \in PkInputs(item_model), sk_in \in SkInputs(item_model) :
        LET r == Item_init(key_prefixes, _key_prefix_names, partition_key_type,
                           sort_key_type, item_model, pk_in, sk_in)
            h1 == IF r.err = "none" /\ (pk_in = None \/ pk_in[1].prefix_value = None)
                  THEN Record(returned, item_model.name, r.pk[1].attr, r.pk[1].prefix_value)
                  ELSE returned
            h2 == IF r.err = "none" /\ sk_in # None /\ sk_in[1].prefix_value = None
                  THEN Record(h1, item_model.name, r.sk[1].attr, r.sk[1].prefix_value)
                  ELSE h1
        IN /\ key_prefixes' = r.kp
           /\ _key_prefix_names' = r.names
           /\ returned' = h2
           /\ items' = IF r.err = "none" /\ keep
                       THEN items \cup {[item_model |-> item_model, pk |-> r.pk[1], sk |-> r.sk,
                                         resolved |-> (pk_in = None \/ pk_in[1].prefix_value = None)]}
                       ELSE items
           /\ last' = [op |-> "Item", item_model |-> item_model, pk_in |-> pk_in,
                       sk_in |-> sk_in, err |-> r.err, pk |-> r.pk, sk |-> r.sk,
                       pre_kp |-> key_prefixes, pre_names |-> _key_prefix_names]
    /\ UNCHANGED <<partition_key_type, sort_key_type, store, lastPut, calls, puts>>

\* an Item is constructed and kept
NewItem ==
    /\ Cardinality(items) < MaxItems
    /\ Construct(TRUE)

\* an Item is constructed; only the Table's registry and the Keys are followed
ConstructItem == Construct(FALSE)

\* it.put_item(record)
PutItem ==
    /\ last = Idle
    /\ puts < MaxPuts
    /\ \E it \in items : \E record \in Records(it.item_model) :
        LET b == put_item(it, record)
            w == IF b.err = "none" THEN StorePut(store, b.base_item[1])
                 ELSE [err |-> b.err, st |-> store]
        IN /\ store' = w.st
           /\ lastPut' = IF w.err = "none"
                         THEN Some([item |-> it, record |-> record, base_item |-> b.base_item[1]])
                         ELSE lastPut
           /\ last' = [op |-> "put_item", item |-> it, record |-> record, err |-> w.err,
                       composed |-> b.composed, base_item |-> b.base_item]
    /\ puts' = puts + 1
    /\ UNCHANGED <<partition_key_type, sort_key_type, key_prefixes, _key_prefix_names,
                   items, returned, calls>>

\* it.get_item(pk, sk)
GetItem ==
    /\ last = Idle
    /\ \E it \in items : \E pk \in Values, sk \in {None} \cup {Some(v) : v \in Values} :
        LET g == get_item(it, pk, sk)
        IN last' = [op |-> "get_item", item |-> it, pk |-> pk, sk |-> sk, err |-> g.err,
                    key |-> g.key, ret |-> g.ret]
    /\ UNCHANGED <<partition_key_type, sort_key_type, key_prefixes, _key_prefix_names,
                   items, store, returned, lastPut, calls, puts>>

\* the caller has seen the outcome of its latest call and goes on to the next one
Continue ==
    /\ last # Idle
    /\ last' = Idle
    /\ UNCHANGED <<partition_key_type, sort_key_type, key_prefixes, _key_prefix_names,
                   items, store, returned, lastPut, calls, puts>>

Next == GetPrefix \/ NewItem \/ PutItem \/ GetItem \/ Continue

Spec == Init /\ [][Next]_vars

\* the Table and its registry alone: direct get_prefix calls and Item construction
NextRegistry == GetPrefix \/ ConstructItem \/ Continue

SpecRegistry == Init /\ [][NextRegistry]_vars

-----------------------------------------------------------------------------
(* Properties *)

Errors == {"AttributeError", "TypeError", "ValueError"}

UpperSeq(w) == [j \in 1..Len(w) |-> upper(w[j])]

\* the candidates get_prefix tries, in order
Candidates(item, attr) ==
    [i \in 1..Len(attr) |-> <<upper(item[1])>> \o UpperSeq(SubSeq(attr, 1, i))]

\* the candidates beginning with the bare first character of the type name
BareCandidates(item, attr) ==
    [i \in 1..(Len(attr) + 1) |-> <<upper(item[1])>> \o UpperSeq(SubSeq(attr, 1, i - 1))]

FirstUnused(c, names) ==
    IF \E i \in DOMAIN c : c[i] \notin names
    THEN Some(c[CHOOSE i \in DOMAIN c : c[i] \notin names /\ \A j \in 1..(i - 1) : c[j] \in names])
    ELSE None

\* the latest call was get_prefix for a pair the registry had not assigned yet
FreshPrefixCall ==
    /\ last.op = "get_prefix"
    /\ PrefixKey(last.item, last.attr) \notin DOMAIN last.pre_kp

\* C1: no two distinct (type_name, attribute) pairs ever receive the same prefix, and
\* every call for a pair, direct or made by Item construction, returns what the
\* first call for that pair returned.
C1_PrefixInjectiveMemoized ==
    /\ \A p, q \in DOMAIN returned :
          p # q /\ returned[p] # None => returned[p] # returned[q]
    /\ last.op = "get_prefix" => last.ret = returned[<<last.item, last.attr>>]
    /\ (last.op = "Item" /\ last.err = "none" /\ (last.pk_in = None \/ last.pk_in[1].prefix_value = None))
          => last.pk[1].prefix_value = returned[<<last.item_model.name, last.pk[1].attr>>]

\* C1 witness: a repeated get_prefix call, made when two pairs hold prefixes
C1_Witness ==
    /\ last.op = "get_prefix"
    /\ <<last.item, last.attr>> \in DOMAIN last.pre_returned
    /\ last.ret # None
    /\ \E q \in DOMAIN returned : q # <<last.item, last.attr>> /\ returned[q] # None

\* C3 as stated: the candidates start with the bare upper-cased first character of
\* the type name; get_prefix("User", "id") returns "U" when nothing is issued, and in
\* general the first candidate of that sequence not yet issued.
C3_BareFirstCandidate ==
    FreshPrefixCall =>
        /\ last.ret = FirstUnused(BareCandidates(last.item, last.attr), last.pre_names)
        /\ (last.item = User.name /\ last.attr = <<"i", "d">> /\ last.pre_names = {})
              => last.ret = Some(<<"U">>)

\* C3 amended: the candidates start with the upper-cased first character of the type
\* name followed by the upper-cased first character of the attribute, then append
\* the attribute's next characters: get_prefix("User", "id") returns "UI" when
\* nothing is issued and "UID" when "UI" is issued; for a pair not assigned before,
\* the result is the first candidate not yet issued, and no value when all are issued.
C3_CandidateSequence ==
    FreshPrefixCall =>
        /\ last.ret = FirstUnused(Candidates(last.item, last.attr), last.pre_names)
        /\ (last.item = User.name /\ last.attr = <<"i", "d">> /\ last.pre_names = {})
              => last.ret = Some(<<"U", "I">>)
        /\ (last.item = User.name /\ last.attr = <<"i", "d">>
               /\ <<"U", "I">> \in last.pre_names /\ <<"U", "I", "D">> \notin last.pre_names)
              => last.ret = Some(<<"U", "I", "D">>)

\* C3 witness: get_prefix("User", "id") called when "UI" is issued returns "UID"
C3_Witness ==
    /\ FreshPrefixCall
    /\ last.item = User.name /\ last.attr = <<"i", "d">>
    /\ last.pre_names = {<<"U", "I">>}
    /\ last.ret = Some(<<"U", "I", "D">>)

\* the latest call was Item(...); its partition key, after defaulting
ItemCall == last.op = "Item"
LastPk == DefaultPk(last.item_model, last.pk_in)
PkPresent == LastPk.attr \in FieldSet(last.item_model)
PkOptional == LastPk.attr \in last.item_model.optional
SkGiven == last.sk_in # None
SkPresent == last.sk_in[1].attr \in FieldSet(last.item_model)
SkOptional == last.sk_in[1].attr \in last.item_model.optional
PkPrefixClash == LastPk.prefix /\ partition_key_type # "str"
SkPrefixClash == last.sk_in[1].prefix /\ sort_key_type # "str"

\* C4 as stated: constructing an Item (no sort key given) whose partition-key
\* attribute is present on the shape and not optional succeeds, for every Table and
\* every registry state.
C4_PresentKeySucceeds ==
    (ItemCall /\ ~SkGiven /\ PkPresent /\ ~PkOptional) => last.err = "none"

\* C4 amended: constructing an Item whose partition-key attribute is present and
\* not optional succeeds in every registry state, provided the partition key does
\* not ask for a prefix on a Table whose partition-key type is not string, and the
\* sort key, when given, is present, not optional and does not ask for a prefix on a
\* Table whose sort-key type is not string.
C4_CompatibleKeySucceeds ==
    (ItemCall /\ PkPresent /\ ~PkOptional /\ ~PkPrefixClash
        /\ (SkGiven => SkPresent /\ ~SkOptional /\ ~SkPrefixClash))
    => last.err = "none"

\* C4 witness: a construction that succeeds without a prefix on a Table whose
\* partition key is not a string, the registry holding prefixes already
C4_Witness ==
    /\ ItemCall /\ last.err = "none"
    /\ partition_key_type = "int" /\ ~LastPk.prefix
    /\ SkGiven
    /\ last.pre_names # {}

\* C5: Item construction raises the error of the first failing check, in the order
\* pk absent (AttributeError), pk optional (TypeError), sk absent (AttributeError),
\* sk optional (TypeError), pk prefix on a non-string Table pk (ValueError), sk
\* prefix on a non-string Table sk (ValueError).
C5_FirstFailingCheck ==
    ItemCall =>
        /\ ~PkPresent => last.err = "AttributeError"
        /\ (PkPresent /\ PkOptional) => last.err = "TypeError"
        /\ (PkPresent /\ ~PkOptional /\ SkGiven /\ ~SkPresent) => last.err = "AttributeError"
        /\ (PkPresent /\ ~PkOptional /\ SkGiven /\ SkPresent /\ SkOptional)
              => last.err = "TypeError"
        /\ (PkPresent /\ ~PkOptional /\ (SkGiven => SkPresent /\ ~SkOptional) /\ PkPrefixClash)
              => last.err = "ValueError"
        /\ (PkPresent /\ ~PkOptional /\ (SkGiven => SkPresent /\ ~SkOptional)
               /\ ~PkPrefixClash /\ SkGiven /\ SkPrefixClash)
              => last.err = "ValueError"

\* C5 witness: the sort-key attribute is absent and the partition key asks for a
\* prefix the Table cannot take: the earlier check's AttributeError is raised
C5_Witness ==
    /\ ItemCall /\ PkPresent /\ ~PkOptional
    /\ SkGiven /\ ~SkPresent
    /\ PkPrefixClash
    /\ last.err = "AttributeError"

\* C8: when Item construction raises, the registry (key_prefixes and
\* _key_prefix_names) is as it was before the call and the Keys passed in keep
\* their prefix_value.
C8_NoPartialConstruction ==
    (ItemCall /\ last.err \in Errors) =>
        /\ key_prefixes = last.pre_kp
        /\ _key_prefix_names = last.pre_names
        /\ last.pk = last.pk_in
        /\ last.sk = last.sk_in

\* C8 witness: the last check fails (the sort key's prefix), the partition key
\* having passed every check with its prefix still to resolve
C8_Witness ==
    /\ ItemCall /\ last.err = "ValueError"
    /\ ~PkPrefixClash /\ SkGiven /\ SkPrefixClash
    /\ last.pk_in # None /\ last.pk_in[1].prefix_value = None
    /\ PrefixKey(last.item_model.name, LastPk.attr) \notin DOMAIN last.pre_kp

\* the latest call was put_item and built its base_item; get_item and built its key
PutCall == last.op = "put_item" /\ last.base_item # None
GetCall == last.op = "get_item" /\ last.key # None

\* C2: on a Table with a string partition key and no sort key, for an Item whose
\* partition key uses a prefix, put_item(r) followed by get_item(raw partition-key
\* value of r) returns a record equal to r.
C2_RoundTrip ==
    (/\ last.op = "get_item"
     /\ lastPut # None
     /\ last.item = lastPut[1].item
     /\ partition_key_type = "str" /\ sort_key_type = "none"
     /\ last.item.pk.prefix /\ last.item.sk = None
     /\ last.sk = None
     /\ last.pk = lastPut[1].record[last.item.pk.attr])
    => (last.err = "none" /\ last.ret = Some(lastPut[1].record))

\* C6: with a string partition key, a declared sort-key type and an Item with no
\* sort key, put_item writes sk "A" and get_item without a sort value looks up sk
\* "A"; with no sort-key type and no sort key, neither key holds an sk.
C6_PlaceholderSortKey ==
    /\ (PutCall /\ last.err = "none" /\ partition_key_type = "str" /\ sort_key_type # "none"
           /\ last.item.sk = None)
          => (SK \in DOMAIN last.base_item[1] /\ last.base_item[1][SK] = Placeholder)
    /\ (GetCall /\ partition_key_type = "str" /\ sort_key_type # "none" /\ last.item.sk = None
           /\ last.sk = None)
          => (SK \in DOMAIN last.key[1] /\ last.key[1][SK] = Placeholder)
    /\ (PutCall /\ sort_key_type = "none" /\ last.item.sk = None)
          => SK \notin DOMAIN last.composed[1]
    /\ (GetCall /\ sort_key_type = "none" /\ last.item.sk = None /\ last.sk = None)
          => SK \notin DOMAIN last.key[1]

\* C7: a key that uses no prefix is coerced to the Table's type for its own slot:
\* the partition key to the partition-key type, the sort key to the sort-key type,
\* in put_item and in get_item.
C7_OwnSlotCoercion ==
    /\ (PutCall /\ ~last.item.pk.prefix)
          => last.composed[1][PK] = Coerce(partition_key_type, last.record[last.item.pk.attr]).v
    /\ (PutCall /\ last.item.sk # None /\ sort_key_type # "none" /\ ~last.item.sk[1].prefix)
          => last.composed[1][SK] = Coerce(sort_key_type, last.record[last.item.sk[1].attr]).v
    /\ (GetCall /\ ~last.item.pk.prefix)
          => last.key[1][PK] = Coerce(partition_key_type, last.pk).v
    /\ (GetCall /\ last.sk # None /\ sort_key_type # "none" /\ ~last.item.sk[1].prefix)
          => last.key[1][SK] = Coerce(sort_key_type, last.sk[1]).v

\* C9: for every shape, also one declaring a field named "pk" or "sk", the record
\* put_item hands to the store has its pk entry, and its sk entry when present,
\* equal to the composed (or placeholder) key.
C9_KeysSurviveMerge ==
    PutCall => \A a \in DOMAIN last.composed[1] : last.base_item[1][a] = last.composed[1][a]

\* C10: every Item whose partition-key prefix was resolved by the registry holds a
\* defined prefix value, different from the partition-key prefix value of every
\* other Item of another record type or key attribute on the Table.
C10_ResolvedPrefixesDistinct ==
    \A a \in items :
        a.resolved =>
            /\ a.pk.prefix_value # None
            /\ \A b \in items :
                  (b.item_model # a.item_model \/ b.pk.attr # a.pk.attr)
                      => b.pk.prefix_value # a.pk.prefix_value

====
